---------------------------- MODULE Spec2Model ----------------------------
(***************************************************************************)
(* A model of ulsys: the deterministic and the stochastic L-system         *)
(* rewriting engines (ulsys/standard/standard.py, ulsys/lsys.py,           *)
(* ulsys/stochastic/stochastic.py), the turtle interpreter                 *)
(* (ulsys/turtle/turtle.py, ulsys/turtle/tikz.py),                        *)
(* FunctionalSymbol.call_all (ulsys/lsys.py) and the rule constructors     *)
(* production of the standard and of the stochastic module.                *)
(*                                                                         *)
(* Symbols are strings.  A sequence of symbols (a Python str or list) is a *)
(* TLA+ sequence.  Real numbers (weights, draws of the random source) are  *)
(* exact rationals <<numerator, denominator>> with a positive denominator. *)
(***************************************************************************)
EXTENDS Integers, Sequences, FiniteSets, TLC

VARIABLES
    \* ---- rewriting engines (specification Spec)
    engine,       \* "det": standard.evaluateSystem, "sto": stochastic.evaluateSystem
    axiom,        \* argument axiom
    rules,        \* argument rules, in the form the caller passed it
    n,            \* argument n
    pc,           \* "call" | "enter" | "loop" | "done" | "error"
    result,       \* the returned sequence (once pc = "done")
    err,          \* the exception raised (once pc = "error")
    s_to_rules,   \* stochastic: the grouped rule table
    curr_axiom,   \* stochastic impl: parameter curr_axiom
    curr_n,       \* stochastic impl: parameter curr_n
    newaxiom,     \* stochastic impl: local newaxiom
    idx,          \* stochastic impl: position of the for loop in curr_axiom
    ndraws,       \* number of calls of rng() so far in this call
    gendraws,     \* number of calls of rng() in the current generation
    napplied,     \* number of rule applications so far in this call
    drawn,        \* the set of values rng() has returned so far in this call
    rngseq,       \* SpecTwoCalls: the values rng() has returned in this call, in order
    lastdraw,     \* the last loop iteration: symbol, draw and rule applied
    \* ---- turtle interpreter (specification SpecTurtle)
    turtle,       \* the turtle object handed to mapActions
    trace,        \* the symbols mapActions has taken from the sequence so far
    hist,         \* position and heading of the turtle before each of them
    tpc,          \* "idle" | "run" | "raised" | "returned"
    ret,          \* the id of the object mapActions returned, 0 before
    \* ---- FunctionalSymbol (specification SpecCallAll)
    fentry,       \* the class method called: "call_all" | "call_all_with_results"
    symbols,      \* its argument symbols
    fpc,          \* "idle" | "call" | "gen" | "done" | "raised"
    fdepth,       \* the number of frames of call_all on the call stack
    fidx,         \* generator: position of "for s in symbols"
    invoked,      \* the names of the symbols invoked so far, in order
    \* ---- production (specification SpecProduction)
    pmodule,      \* "standard" | "stochastic": the module whose production is called
    pargs,        \* its arguments: a sequence of texts
    ppc,          \* "idle" | "call" | "returned" | "raised"
    pret,         \* the value returned (once ppc = "returned")
    perr,         \* the exception raised (once ppc = "raised")
    \* ---- two calls in a row (specification SpecTwoCalls)
    callno,       \* 1 in the first, 2 in the second of two calls; 0 otherwise
    call1         \* the outcome of the first call and the values its rng returned

rwVars == <<engine, axiom, rules, n, pc, result, err, s_to_rules, curr_axiom,
            curr_n, newaxiom, idx, ndraws, gendraws, napplied, drawn, rngseq,
            lastdraw>>

ttVars == <<turtle, trace, hist, tpc, ret>>

fsVars == <<fentry, symbols, fpc, fdepth, fidx, invoked>>

prVars == <<pmodule, pargs, ppc, pret, perr>>

tcVars == <<callno, call1>>

vars == <<rwVars, ttVars, fsVars, prVars, tcVars>>

-----------------------------------------------------------------------------
(* Bounds of the model. *)

MaxN == 2

MaxAxiomLen == 2

\* The longest symbol sequence handed to mapActions.
MaxSymbols == 5

\* The longest symbol sequence handed to FunctionalSymbol.call_all.
MaxCallSymbols == 3

\* The interpreter's recursion limit (sys.getrecursionlimit()), scaled down.
RecursionLimit == 4

\* The longest text enumerated character by character for production.
MaxTextLen == 4

\* The most arguments of one call of production.
MaxArgs == 2

-----------------------------------------------------------------------------
(* Exact rational arithmetic, standing for Python's float operations. *)

Rat(a, b) == <<a, b>>

RatAdd(a, b) == <<a[1] * b[2] + b[1] * a[2], a[2] * b[2]>>

RatDiv(a, b) == <<a[1] * b[2], a[2] * b[1]>>

RatLe(a, b) == a[1] * b[2] <= b[1] * a[2]

RatLt(a, b) == a[1] * b[2] < b[1] * a[2]

RatEq(a, b) == a[1] * b[2] = b[1] * a[2]

RatIsZero(a) == a[1] = 0

-----------------------------------------------------------------------------
(* Sequences. *)

SeqsUpTo(S, k) == UNION {[1..m -> S] : m \in 0..k}

-----------------------------------------------------------------------------
(* The deterministic engine: ulsys/standard/standard.py evaluateSystem.    *)
(* rules is a tagged value: [kind |-> "dict", map |-> function],           *)
(* [kind |-> "list", items |-> sequence of <<S, seq>>] or                  *)
(* [kind |-> "tuple", item |-> <<S, seq>>].                                *)

DictRules(m) == [kind |-> "dict", map |-> m]

ListRules(items) == [kind |-> "list", items |-> items]

TupleRules(item) == [kind |-> "tuple", item |-> item]

\* dict with the first pair of a key kept (setdefault), not the last.
dict_firstWins(items) ==
    LET keys == {items[i][1] : i \in DOMAIN items}
        first(k) == CHOOSE i \in DOMAIN items :
                       /\ items[i][1] = k
                       /\ \A j \in DOMAIN items : items[j][1] = k => i <= j
    IN  [k \in keys |-> items[first(k)][2]]

\* dict(rules) of a list of pairs: a later pair overwrites an earlier one.
dict(items) ==
    LET keys == {items[i][1] : i \in DOMAIN items}
        last(k) == CHOOSE i \in DOMAIN items :
                      /\ items[i][1] = k
                      /\ \A j \in DOMAIN items : items[j][1] = k => j <= i
    IN  [k \in keys |-> items[last(k)][2]]

\* Lines 106-109: a list becomes a dict; then a tuple becomes a one-element
\* list (and stays a list for this call).
normalizeRules(r) ==
    LET r1 == IF r.kind = "list" THEN DictRules(dict(r.items)) ELSE r
    IN  IF r1.kind = "tuple" THEN ListRules(<<r1.item>>) ELSE r1

\* A symbol (a string here) never compares equal to a rule tuple.
SymbolEqualsItem(x, item) == FALSE

\* "x in rules": key membership for a dict, element membership for a list.
inRules(x, r) ==
    IF r.kind = "dict" THEN x \in DOMAIN r.map
    ELSE \E i \in DOMAIN r.items : SymbolEqualsItem(x, r.items[i])

\* expandFrom with the else branch of line 116 lost: a symbol without a
\* rule is dropped.
RECURSIVE expandFrom_dropUnmapped(_, _, _, _)
expandFrom_dropUnmapped(ax, r, i, res) ==
    IF i > Len(ax) THEN res
    ELSE IF inRules(ax[i], r)
         THEN expandFrom_dropUnmapped(ax, r, i + 1, res \o r.map[ax[i]])
         ELSE expandFrom_dropUnmapped(ax, r, i + 1, res)

\* Lines 112-117: the for loop over the axiom, from position i on.
RECURSIVE expandFrom(_, _, _, _)
expandFrom(ax, r, i, res) ==
    IF i > Len(ax) THEN res
    ELSE IF inRules(ax[i], r)
         THEN expandFrom(ax, r, i + 1, res \o r.map[ax[i]])
         ELSE expandFrom(ax, r, i + 1, Append(res, ax[i]))

\* Line 110: the guard that ends the recursion.
detStops(k) == k < 1

RECURSIVE evaluateSystem(_, _, _)
evaluateSystem(ax, r, k) ==
    LET r2 == normalizeRules(r)
    IN  IF detStops(k) THEN ax
        ELSE evaluateSystem(expandFrom(ax, r2, 1, <<>>), r2, k - 1)

-----------------------------------------------------------------------------
(* The stochastic engine: ulsys/stochastic/stochastic.py evaluateSystem.   *)
(* rules is [kind |-> "dict", map |-> S -> sequence of <<R, Abc>>],        *)
(* [kind |-> "list", items |-> sequence of <<S, R, Abc>>] or               *)
(* [kind |-> "tuple", item |-> <<S, R, Abc>>].                             *)

\* Lines 151-155: group the rules of a list by symbol, in list order.
RECURSIVE groupFrom(_, _, _)
groupFrom(items, i, table) ==
    IF i > Len(items) THEN table
    ELSE LET S == items[i][1]
             entry == <<items[i][2], items[i][3]>>
         IN  IF S \in DOMAIN table
             THEN groupFrom(items, i + 1,
                            [table EXCEPT ![S] = Append(table[S], entry)])
             ELSE groupFrom(items, i + 1,
                            [k \in DOMAIN table \cup {S} |->
                                IF k = S THEN <<entry>> ELSE table[k]])

\* A table built into the dict of the previous call instead of a new one.
buildTable_keptDict(r) ==
    IF r.kind = "dict" THEN r.map
    ELSE IF r.kind = "tuple" THEN groupFrom(<<r.item>>, 1, s_to_rules)
    ELSE groupFrom(r.items, 1, s_to_rules)

\* Lines 140-157: the rule table evaluateSystem builds from its argument.
buildTable(r) ==
    IF r.kind = "dict" THEN r.map
    ELSE IF r.kind = "tuple" THEN groupFrom(<<r.item>>, 1, <<>>)
    ELSE groupFrom(r.items, 1, <<>>)

\* Line 169: sorted(..., key=lambda x: x[0]), a stable sort by weight:
\* insert x after every element whose weight is not greater.
RECURSIVE insertSorted(_, _)
insertSorted(s, x) ==
    IF s = <<>> THEN <<x>>
    ELSE IF RatLt(x[1], s[1][1]) THEN <<x>> \o s
    ELSE <<s[1]>> \o insertSorted(Tail(s), x)

RECURSIVE sortedFrom(_, _, _)
sortedFrom(rs, i, acc) ==
    IF i > Len(rs) THEN acc
    ELSE sortedFrom(rs, i + 1, insertSorted(acc, rs[i]))

\* sorted left out: the rules stay in input order.
sorted_inputOrder(rs) == rs

sorted(rs) == sortedFrom(rs, 1, <<>>)

\* Line 171: sum((R for R, Abc in current_rules)).
RECURSIVE sumWeights(_, _)
sumWeights(rs, i) ==
    IF i > Len(rs) THEN Rat(0, 1)
    ELSE RatAdd(rs[i][1], sumWeights(rs, i + 1))

prob_total(current_rules) == sumWeights(current_rules, 1)

\* Line 174: [R/prob_total for R, Abc in current_rules].
weights(current_rules) ==
    [i \in DOMAIN current_rules |->
        RatDiv(current_rules[i][1], prob_total(current_rules))]

\* Line 175: list(itertools.accumulate(weights)).
RECURSIVE accumulate(_, _)
accumulate(ws, i) ==
    IF i = 0 THEN Rat(0, 1) ELSE RatAdd(accumulate(ws, i - 1), ws[i])

weights_acc(current_rules) ==
    [i \in DOMAIN current_rules |-> accumulate(weights(current_rules), i)]

\* The test of line 181 with a strict upper comparison.
hitsPartition_strictUpper(p, last_w, w) == RatLe(last_w, p) /\ RatLt(p, w)

\* Line 181: the test that selects rule i.
hitsPartition(p, last_w, w) == RatLe(last_w, p) /\ RatLe(p, w)

\* Lines 178-185: the index of selected_rule in current_rules, 0 for None.
RECURSIVE selectLoop(_, _, _, _)
selectLoop(acc, p, i, last_w) ==
    IF i > Len(acc) THEN 0
    ELSE IF hitsPartition(p, last_w, acc[i]) THEN i
    ELSE selectLoop(acc, p, i + 1, acc[i])

selectedIndex(current_rules, p) ==
    selectLoop(weights_acc(current_rules), p, 1, Rat(0, 1))

\* Line 166: "if S in s_to_rules".
hasRuleSet(S, table) == S \in DOMAIN table

\* The production put in front of newaxiom instead of behind it.
extend_prepend(na, Abc) == Abc \o na

\* Line 187: newaxiom.extend(Abc).
extend(na, Abc) == na \o Abc

\* The guard of line 161 off by one: n = 0 runs a generation.
stoStops_offByOne(k) == k < 0

\* Line 161: the guard that ends the recursion of impl.
stoStops(k) == k < 1

-----------------------------------------------------------------------------
(* Inputs of the rewriting engines. *)

AxiomSymbols == {"A", "B", "0"}

Axioms == SeqsUpTo(AxiomSymbols, MaxAxiomLen)

Generations == (0 - 1)..MaxN

\* The Pythagoras tree of the doctest, and small tables over A, B, C.
Pythagoras == <<<<"1", <<"1", "1">>>>, <<"0", <<"1", "[", "0", "]", "0">>>>>>

DetRuleLists ==
    { Pythagoras,
      <<>>,
      <<<<"A", <<"B", "A">>>>>>,
      <<<<"A", <<"B", "A">>>>, <<"B", <<>>>>>>,
      <<<<"A", <<"A", "B">>>>, <<"A", <<"C">>>>>>,
      <<<<"A", <<"C">>>>, <<"B", <<"A">>>>, <<"A", <<"A", "B">>>>>> }

DetRules ==
    {ListRules(l) : l \in DetRuleLists}
    \cup {DictRules(dict(l)) : l \in DetRuleLists}
    \cup {TupleRules(l[1]) : l \in {x \in DetRuleLists : Len(x) = 1}}

\* The draws of the random source, in [0, 1).
Draws == {Rat(0, 1), Rat(1, 3), Rat(1, 2), Rat(5, 6)}

StoRuleLists ==
    { <<<<"A", Rat(1, 2), <<"B", "A">>>>, <<"A", Rat(1, 2), <<"C">>>>>>,
      <<<<"A", Rat(2, 1), <<"B">>>>, <<"A", Rat(4, 1), <<"C", "A">>>>>>,
      <<<<"A", Rat(4, 1), <<"C", "A">>>>, <<"A", Rat(2, 1), <<"B">>>>>>,
      <<<<"A", Rat(1, 1), <<"A", "B">>>>>>,
      <<<<"A", Rat(0, 1), <<"C">>>>, <<"A", Rat(1, 1), <<"B", "A">>>>>>,
      <<<<"A", Rat(0, 1), <<"C">>>>>>,
      <<<<"A", Rat(1, 1), <<"B">>>>, <<"B", Rat(3, 1), <<"A">>>>,
        <<"A", Rat(1, 1), <<"C">>>>, <<"B", Rat(1, 1), <<>>>>>> }

StoRules ==
    {ListRules(l) : l \in StoRuleLists}
    \cup {DictRules(groupFrom(l, 1, <<>>)) : l \in {x \in StoRuleLists : Len(x) = 2}}
    \cup {TupleRules(l[1]) : l \in {x \in StoRuleLists : Len(x) = 1}}

NoDraw == [kind |-> "none", sym |-> "", p |-> Rat(0, 1), rule |-> <<>>]

-----------------------------------------------------------------------------
(* The turtles: ulsys/turtle/turtle.py (BaseTurtle, TurtleAction,          *)
(* mapActions, PyXTurtle) and ulsys/turtle/tikz.py (TikzTurtle).           *)
(* Angles are counted in quarter turns (units of pi/2), so that            *)
(* math.cos and math.sin are 0, 1 or -1 and positions are integral.        *)
(* A turtle object is a record; the fields states and paths belong to      *)
(* PyXTurtle, the fields stack, path and picture (_stack, _path,           *)
(* _picture._objs) to TikzTurtle; exc is the exception a method raised.    *)

\* turtle.py, class _vec2.
vec2(x, y) == <<x, y>>

vec2_add(a, b) == vec2(a[1] + b[1], a[2] + b[2])

vec2_mul(a, k) == vec2(a[1] * k, a[2] * k)

\* geom.vec2, imported by tikz.py: a 2D vector with value addition.
geom_vec2_add(a, b) == vec2(a[1] + b[1], a[2] + b[2])

cos(angle) == CASE angle % 4 = 0 -> 1
                [] angle % 4 = 2 -> 0 - 1
                [] OTHER -> 0

sin(angle) == CASE angle % 4 = 1 -> 1
                [] angle % 4 = 3 -> 0 - 1
                [] OTHER -> 0

\* TikzPath: None, or the list _v of its vertices.
NonePath == [none |-> TRUE, v |-> <<>>]

TikzPath(start) == [none |-> FALSE, v |-> <<start>>]

TikzPath_to(path, v) == [path EXCEPT !.v = Append(path.v, v)]

\* pyx path elements.
moveto(x, y) == <<"moveto", x, y>>

lineto(x, y) == <<"lineto", x, y>>

\* BaseTurtle.__init__, PyXTurtle.__init__, TikzTurtle.__init__.
NewTurtle(id, cls) ==
    [id |-> id, cls |-> cls, pos |-> vec2(0, 0), angle |-> 1,
     states |-> <<>>,
     paths |-> IF cls = "PyXTurtle" THEN <<moveto(0, 0)>> ELSE <<>>,
     stack |-> <<>>, path |-> NonePath, picture |-> <<>>,
     exc |-> ""]

\* BaseTurtle.direction.
direction(T) == vec2(cos(T.angle), sin(T.angle))

\* BaseTurtle.forward: self.pos += self.direction() * scale.
BaseTurtle_forward(T, scale) ==
    [T EXCEPT !.pos = IF T.cls = "TikzTurtle"
                      THEN geom_vec2_add(T.pos, vec2_mul(direction(T), scale))
                      ELSE vec2_add(T.pos, vec2_mul(direction(T), scale))]

\* A rotate that keeps the heading within one full turn.
BaseTurtle_rotate_wrapped(T, rad) == [T EXCEPT !.angle = (T.angle + rad) % 4]

\* BaseTurtle.rotate: self.angle += rad.
BaseTurtle_rotate(T, rad) == [T EXCEPT !.angle = T.angle + rad]

PyXTurtle_forward(T, scale) ==
    LET T1 == BaseTurtle_forward(T, scale)
    IN  [T1 EXCEPT !.paths = Append(T1.paths, lineto(T1.pos[1], T1.pos[2]))]

PyXTurtle_push(T) == [T EXCEPT !.states = Append(T.states, <<T.pos, T.angle>>)]

\* A pop that restores the oldest saved state instead of the newest.
PyXTurtle_pop_oldest(T) ==
    IF T.states = <<>> THEN [T EXCEPT !.exc = "IndexError"]
    ELSE LET top == T.states[1]
         IN  [T EXCEPT !.states = Tail(T.states),
                       !.pos = top[1],
                       !.angle = top[2],
                       !.paths = Append(T.paths, moveto(top[1][1], top[1][2]))]

\* list.pop() of an empty list raises IndexError before anything is assigned.
PyXTurtle_pop(T) ==
    IF T.states = <<>> THEN [T EXCEPT !.exc = "IndexError"]
    ELSE LET top == T.states[Len(T.states)]
         IN  [T EXCEPT !.states = SubSeq(T.states, 1, Len(T.states) - 1),
                       !.pos = top[1],
                       !.angle = top[2],
                       !.paths = Append(T.paths, moveto(top[1][1], top[1][2]))]

TikzTurtle_forward(T, scale) ==
    LET T1 == IF T.path.none THEN [T EXCEPT !.path = TikzPath(T.pos)] ELSE T
        T2 == BaseTurtle_forward(T1, scale)
    IN  [T2 EXCEPT !.path = TikzPath_to(T2.path, T2.pos)]

TikzTurtle_push(T) ==
    [T EXCEPT !.stack = Append(T.stack, <<T.path, T.pos, T.angle>>),
              !.path = NonePath]

\* A pop that does nothing on an empty stack instead of raising.
TikzTurtle_pop_ignoreEmpty(T) ==
    LET T1 == IF ~T.path.none
              THEN [T EXCEPT !.picture = Append(T.picture, T.path)]
              ELSE T
    IN  IF T1.stack = <<>> THEN T
        ELSE LET top == T1.stack[Len(T1.stack)]
             IN  [T1 EXCEPT !.stack = SubSeq(T1.stack, 1, Len(T1.stack) - 1),
                            !.path = top[1],
                            !.pos = top[2],
                            !.angle = top[3]]

\* The in-progress path is added to the picture before _stack.pop() can raise.
TikzTurtle_pop(T) ==
    LET T1 == IF ~T.path.none
              THEN [T EXCEPT !.picture = Append(T.picture, T.path)]
              ELSE T
    IN  IF T1.stack = <<>> THEN [T1 EXCEPT !.exc = "IndexError"]
        ELSE LET top == T1.stack[Len(T1.stack)]
             IN  [T1 EXCEPT !.stack = SubSeq(T1.stack, 1, Len(T1.stack) - 1),
                            !.path = top[1],
                            !.pos = top[2],
                            !.angle = top[3]]

\* getattr(turtle, method_name)(*args); forward() takes its default scale.
callMethod(T, name, args) ==
    CASE name = "forward" ->
            IF T.cls = "PyXTurtle" THEN PyXTurtle_forward(T, 1)
            ELSE TikzTurtle_forward(T, 1)
      [] name = "rotate" -> BaseTurtle_rotate(T, args[1])
      [] name = "push" ->
            IF T.cls = "PyXTurtle" THEN PyXTurtle_push(T) ELSE TikzTurtle_push(T)
      [] name = "pop" ->
            IF T.cls = "PyXTurtle" THEN PyXTurtle_pop(T) ELSE TikzTurtle_pop(T)

\* class TurtleAction and its constructors.
TurtleAction(method_name, args) ==
    [kind |-> "method", method_name |-> method_name, args |-> args]

TurtleAction_forward == TurtleAction("forward", <<>>)

TurtleAction_rotate(radians) == TurtleAction("rotate", <<radians>>)

TurtleAction_push == TurtleAction("push", <<>>)

TurtleAction_pop == TurtleAction("pop", <<>>)

\* TurtleAction.__call__.
TurtleAction_call(action, T) == callMethod(T, action.method_name, action.args)

\* lsys.py fractalPlant.turtleActions, with a quarter turn as the angle.
actions ==
    [s \in {"F", "-", "+", "[", "]"} |->
        CASE s = "F" -> TurtleAction_forward
          [] s = "-" -> TurtleAction_rotate(0 - 1)
          [] s = "+" -> TurtleAction_rotate(1)
          [] s = "[" -> TurtleAction_push
          [] s = "]" -> TurtleAction_pop]

\* The symbols of the sequences interpreted; X is bound to no action.
TurtleSymbols == {"F", "-", "+", "[", "]", "X"}

\* An unbound symbol moves the turtle forward instead of being skipped.
mapStep_unmappedForward(T, s) ==
    IF s \in DOMAIN actions THEN TurtleAction_call(actions[s], T)
    ELSE callMethod(T, "forward", <<>>)

\* mapActions, lines 64-66: the body of the loop for one symbol s.
mapStep(T, s) ==
    IF s \in DOMAIN actions THEN TurtleAction_call(actions[s], T) ELSE T

\* TurtleAction.combine(a, b): the function do_combined_action it returns.
TurtleAction_combine(a, b) == [kind |-> "combined", a |-> a, b |-> b]

\* A combined action that runs b before a.
RECURSIVE call_secondFirst(_, _)
call_secondFirst(action, T) ==
    IF action.kind = "combined"
    THEN LET T1 == call_secondFirst(action.b, T)
         IN  IF T1.exc # "" THEN T1 ELSE call_secondFirst(action.a, T1)
    ELSE TurtleAction_call(action, T)

\* f(turtle) for an action f: TurtleAction.__call__, or do_combined_action,
\* lines 127-129: a(turtle), then b(turtle); an exception of a ends the call.
RECURSIVE call(_, _)
call(action, T) ==
    IF action.kind = "combined"
    THEN LET T1 == call(action.a, T)
         IN  IF T1.exc # "" THEN T1 ELSE call(action.b, T1)
    ELSE TurtleAction_call(action, T)

\* lsys.py pythagorasTree.turtleActions, with a quarter turn as the angle.
pythagorasTree_turtleActions ==
    [s \in {"0", "1", "[", "]"} |->
        CASE s = "0" -> TurtleAction_forward
          [] s = "1" -> TurtleAction_forward
          [] s = "[" -> TurtleAction_combine(TurtleAction_push,
                                            TurtleAction_rotate(0 - 1))
          [] s = "]" -> TurtleAction_combine(TurtleAction_pop,
                                            TurtleAction_rotate(1))]

\* The symbols of the sequences interpreted with pythagorasTree.turtleActions.
TreeSymbols == {"0", "1", "[", "]", "X"}

\* mapActions, lines 64-66, with pythagorasTree.turtleActions as actions.
mapStepTree(T, s) ==
    IF s \in DOMAIN pythagorasTree_turtleActions
    THEN call(pythagorasTree_turtleActions[s], T)
    ELSE T

TurtleIdle ==
    /\ turtle = NewTurtle(0, "none")
    /\ trace = <<>>
    /\ hist = <<>>
    /\ tpc = "idle"
    /\ ret = 0

-----------------------------------------------------------------------------
(* ulsys/lsys.py, class FunctionalSymbol.  A symbol of the sequence is a   *)
(* record: a FunctionalSymbol (callable) or a plain value (not callable).  *)

FunctionalSymbol(name) == [name |-> name, callable |-> TRUE]

PlainSymbol(name) == [name |-> name, callable |-> FALSE]

\* callable(s), line 171.
callable(s) == s.callable

CallSymbols == {FunctionalSymbol("f"), FunctionalSymbol("g"), PlainSymbol("x")}

CallAllIdle ==
    /\ fentry = "none"
    /\ symbols = <<>>
    /\ fpc = "idle"
    /\ fdepth = 0
    /\ fidx = 0
    /\ invoked = <<>>

-----------------------------------------------------------------------------
(* production of ulsys/standard/standard.py and of                         *)
(* ulsys/stochastic/stochastic.py.  A text (a Python str) is the sequence  *)
(* of its characters, each a one-character string.                         *)

\* The characters "\s" matches, of those that occur in the texts below.
Whitespace == {" ", "\n"}

\* The characters "[0-9]" matches.
Digits == {"0", "1", "2", "3", "4", "5", "6", "7", "8", "9"}

\* str.find: the least index k >= i at which "->" starts in a, 0 if none.
RECURSIVE find(_, _)
find(a, i) ==
    IF i + 1 > Len(a) THEN 0
    ELSE IF a[i] = "-" /\ a[i + 1] = ">" THEN i
    ELSE find(a, i + 1)

\* str.rfind: the greatest index k <= i at which "->" starts in a, 0 if none.
RECURSIVE rfind(_, _)
rfind(a, i) ==
    IF i < 1 THEN 0
    ELSE IF i + 1 <= Len(a) /\ a[i] = "-" /\ a[i + 1] = ">" THEN i
    ELSE rfind(a, i - 1)

\* a.rsplit(sep="->", maxsplit=1): the split at the last separator.
split_atLast(a) ==
    LET k == rfind(a, Len(a))
    IN  IF k = 0 THEN <<a>>
        ELSE <<SubSeq(a, 1, k - 1), SubSeq(a, k + 2, Len(a))>>

\* a.split(sep="->", maxsplit=1), standard.py line 72: the parts of a before
\* and after the first separator; the text itself when it has none.
split(a) ==
    LET k == find(a, 1)
    IN  IF k = 0 THEN <<a>>
        ELSE <<SubSeq(a, 1, k - 1), SubSeq(a, k + 2, Len(a))>>

Raised(exc) == [exc |-> exc, kind |-> "none", value |-> <<>>]

Returned(kind, value) == [exc |-> "", kind |-> kind, value |-> value]

\* standard.py lines 71-75, one text argument: the rule, or ValueError.
standard_parse(a) ==
    LET parts == split(a)
    IN  IF Len(parts) < 2 THEN Raised("ValueError")
        ELSE Returned("rule", <<parts[1], parts[2]>>)

\* The least j >= i with j > Len(a) or a[j] not in S: the end of a greedy
\* run of characters of S that starts at i.
RECURSIVE skip(_, _, _)
skip(a, i, S) ==
    IF i > Len(a) \/ a[i] \notin S THEN i ELSE skip(a, i + 1, S)

\* The end of a greedy run of characters outside S that starts at i.
RECURSIVE skipNot(_, _, _)
skipNot(a, i, S) ==
    IF i > Len(a) \/ a[i] \in S THEN i ELSE skipNot(a, i + 1, S)

NoMatch == [matched |-> FALSE, g1 |-> <<>>, g2 |-> <<>>, g4 |-> <<>>]

\* "$" of a pattern compiled without re.MULTILINE: the end of the text, or
\* the position before a newline that is the last character of the text.
atEnd(a, e) == e = Len(a) + 1 \/ (e = Len(a) /\ a[e] = "\n")

\* _prodre.match(a), stochastic.py lines 35 and 76.  The pattern is, from
\* the start of the text: group 1, one character other than "-" and ">";
\* optionally group 2, one or more whitespace, one or more digits and
\* optionally a "." with zero or more digits; zero or more whitespace; "->";
\* group 4, one or more non-whitespace characters; "$".
\* Every quantifier is greedy and no shorter run lets the rest match, so the
\* match is found by one scan from the left.  g2 = <<>> stands for None.
_prodre_match(a) ==
    IF Len(a) < 1 \/ a[1] \in {"-", ">"} THEN NoMatch
    ELSE LET j == skip(a, 2, Whitespace)
             hasW == j > 2 /\ j <= Len(a) /\ a[j] \in Digits
             k1 == skip(a, j, Digits)
             k == IF k1 <= Len(a) /\ a[k1] = "."
                  THEN skip(a, k1 + 1, Digits) ELSE k1
             pos == skip(a, IF hasW THEN k ELSE 2, Whitespace)
             e == skipNot(a, pos + 2, Whitespace)
         IN  IF /\ pos + 1 <= Len(a)
                /\ a[pos] = "-"
                /\ a[pos + 1] = ">"
                /\ e > pos + 2
                /\ atEnd(a, e)
             THEN [matched |-> TRUE, g1 |-> <<a[1]>>,
                   g2 |-> IF hasW THEN SubSeq(a, 2, k - 1) ELSE <<>>,
                   g4 |-> SubSeq(a, pos + 2, e - 1)]
             ELSE NoMatch

digitValue(c) ==
    CASE c = "0" -> 0 [] c = "1" -> 1 [] c = "2" -> 2 [] c = "3" -> 3
      [] c = "4" -> 4 [] c = "5" -> 5 [] c = "6" -> 6 [] c = "7" -> 7
      [] c = "8" -> 8 [] c = "9" -> 9

\* float(r) of a text r made of whitespace, digits and at most one ".": the
\* whitespace is stripped, the value is digits / 10^(digits after the point).
RECURSIVE floatFrom(_, _, _, _, _)
floatFrom(r, i, num, den, afterPoint) ==
    IF i > Len(r) THEN Rat(num, den)
    ELSE IF r[i] \in Digits
         THEN floatFrom(r, i + 1, 10 * num + digitValue(r[i]),
                        IF afterPoint THEN 10 * den ELSE den, afterPoint)
    ELSE IF r[i] = "." THEN floatFrom(r, i + 1, num, den, TRUE)
    ELSE floatFrom(r, i + 1, num, den, afterPoint)

float(r) == floatFrom(r, 1, 0, 1, FALSE)

\* stochastic.py lines 75-82, one text argument: the rule, or ValueError.
stochastic_parse(a) ==
    LET matches == _prodre_match(a)
    IN  IF ~matches.matched THEN Raised("ValueError")
        ELSE Returned("rule",
                      <<matches.g1,
                        IF matches.g2 = <<>> THEN Rat(1, 1) ELSE float(matches.g2),
                        matches.g4>>)

\* The parser of one text argument of the module's production.
parse(module, a) ==
    IF module = "standard" THEN standard_parse(a) ELSE stochastic_parse(a)

\* production of either module, for text arguments: ValueError for no
\* argument, the exception of the first argument that does not parse, the
\* rule for one argument, the list of the rules in order for several.
production(module, as) ==
    IF Len(as) < 1 THEN Raised("ValueError")
    ELSE LET res == [i \in DOMAIN as |-> parse(module, as[i])]
         IN  IF \E i \in DOMAIN as : res[i].exc # ""
             THEN Raised("ValueError")
             ELSE IF Len(as) = 1 THEN res[1]
             ELSE Returned("list", [i \in DOMAIN as |-> res[i].value])

\* The characters of the texts that are enumerated in full.
Chars == {"F", "A", " ", "\n", "1", ".", "-", ">"}

\* Texts put together from parts, well-formed and not.
TextParts ==
    <<{<<"F">>, <<" ">>, <<"-">>, <<"F", "A">>, <<>>},
      {<<>>, <<" ", "1">>, <<" ", "0", ".", "5">>, <<" ", "2", ".">>,
       <<" ", ".", "5">>, <<"1">>, <<" ", " ", "1", "2">>},
      {<<>>, <<" ">>, <<"\n">>},
      {<<"-", ">">>, <<"-">>},
      {<<>>, <<" ">>},
      {<<"A">>, <<"A", "B">>, <<>>, <<"A", "-", ">", "B">>, <<"A", " ", "B">>},
      {<<>>, <<"\n">>, <<"\n", "\n">>}>>

StructuredTexts ==
    {p[1] \o p[2] \o p[3] \o p[4] \o p[5] \o p[6] \o p[7] :
        p \in TextParts[1] \X TextParts[2] \X TextParts[3] \X TextParts[4]
              \X TextParts[5] \X TextParts[6] \X TextParts[7]}

Texts == SeqsUpTo(Chars, MaxTextLen) \cup StructuredTexts

\* The texts of the calls with several arguments.
SampleTexts ==
    {<<"F", "-", ">", "A">>, <<"A", " ", "2", "-", ">", "F", "A">>,
     <<"A", " ", "-", ">", "B">>, <<"F", "A">>}

ArgLists == {<<t>> : t \in Texts} \cup SeqsUpTo(SampleTexts, MaxArgs)

NoValue == [kind |-> "none", value |-> <<>>]

ProductionIdle ==
    /\ pmodule = "none"
    /\ pargs = <<>>
    /\ ppc = "idle"
    /\ pret = NoValue
    /\ perr = ""

NoCall == [pc |-> "none", result |-> <<>>, err |-> "", rngseq |-> <<>>]

RewritingIdle ==
    /\ engine = "none"
    /\ axiom = <<>>
    /\ rules = DictRules(<<>>)
    /\ n = 0
    /\ pc = "idle"
    /\ result = <<>>
    /\ err = ""
    /\ s_to_rules = <<>>
    /\ curr_axiom = <<>>
    /\ curr_n = 0
    /\ newaxiom = <<>>
    /\ idx = 0
    /\ ndraws = 0
    /\ gendraws = 0
    /\ napplied = 0
    /\ drawn = {}
    /\ rngseq = <<>>
    /\ lastdraw = NoDraw
    /\ callno = 0
    /\ call1 = NoCall

-----------------------------------------------------------------------------
(* Specification Spec: one call of evaluateSystem, of either engine. *)

Init ==
    /\ engine \in {"det", "sto"}
    /\ axiom \in Axioms
    /\ rules \in (IF engine = "det" THEN DetRules ELSE StoRules)
    /\ n \in Generations
    /\ pc = "call"
    /\ result = <<>>
    /\ err = ""
    /\ s_to_rules = <<>>
    /\ curr_axiom = <<>>
    /\ curr_n = 0
    /\ newaxiom = <<>>
    /\ idx = 0
    /\ ndraws = 0
    /\ gendraws = 0
    /\ napplied = 0
    /\ drawn = {}
    /\ rngseq = <<>>
    /\ lastdraw = NoDraw
    /\ callno = 0
    /\ call1 = NoCall
    /\ TurtleIdle
    /\ CallAllIdle
    /\ ProductionIdle

\* standard.evaluateSystem(axiom, rules, n), the whole call.
DetCall ==
    /\ engine = "det"
    /\ pc = "call"
    /\ result' = evaluateSystem(axiom, rules, n)
    /\ pc' = "done"
    /\ UNCHANGED <<engine, axiom, rules, n, err, s_to_rules, curr_axiom,
                   curr_n, newaxiom, idx, ndraws, gendraws, napplied, drawn, rngseq,
                   lastdraw>>
    /\ UNCHANGED <<ttVars, fsVars, prVars, tcVars>>

\* stochastic.evaluateSystem up to the call impl(axiom, n), lines 135-192.
StoCall ==
    /\ engine = "sto"
    /\ pc = "call"
    /\ s_to_rules' = buildTable(rules)
    /\ curr_axiom' = axiom
    /\ curr_n' = n
    /\ pc' = "enter"
    /\ UNCHANGED <<engine, axiom, rules, n, result, err, newaxiom, idx,
                   ndraws, gendraws, napplied, drawn, rngseq, lastdraw>>
    /\ UNCHANGED <<ttVars, fsVars, prVars, tcVars>>

\* impl, lines 161-163: return curr_axiom, or start a generation.
StoEnter ==
    /\ pc = "enter"
    /\ IF stoStops(curr_n)
       THEN /\ result' = curr_axiom
            /\ pc' = "done"
            /\ UNCHANGED <<newaxiom, idx, gendraws>>
       ELSE /\ newaxiom' = <<>>
            /\ idx' = 1
            /\ gendraws' = 0
            /\ pc' = "loop"
            /\ UNCHANGED result
    /\ lastdraw' = NoDraw
    /\ UNCHANGED <<engine, axiom, rules, n, err, s_to_rules, curr_axiom,
                   curr_n, ndraws, napplied, drawn, rngseq>>
    /\ UNCHANGED <<ttVars, fsVars, prVars, tcVars>>

\* impl, lines 165-190: one iteration of "for S in curr_axiom".
StoStep ==
    /\ pc = "loop"
    /\ idx <= Len(curr_axiom)
    /\ LET S == curr_axiom[idx]
       IN  IF hasRuleSet(S, s_to_rules)
           THEN LET current_rules == sorted(s_to_rules[S])
                IN  IF RatIsZero(prob_total(current_rules))
                    THEN /\ pc' = "error"
                         /\ err' = "ZeroDivisionError"
                         /\ UNCHANGED <<newaxiom, idx, ndraws, gendraws,
                                        napplied, drawn, rngseq, lastdraw>>
                    ELSE \E p \in Draws :
                           LET i == selectedIndex(current_rules, p)
                           IN  /\ ndraws' = ndraws + 1
                               /\ gendraws' = gendraws + 1
                               /\ drawn' = drawn \cup {p}
                               /\ rngseq' = IF callno > 0 THEN Append(rngseq, p)
                                             ELSE rngseq
                               /\ IF i = 0
                                  THEN /\ pc' = "error"
                                       /\ err' = "TypeError"
                                       /\ lastdraw' = [kind |-> "draw", sym |-> S,
                                                       p |-> p, rule |-> <<>>]
                                       /\ UNCHANGED <<newaxiom, idx, napplied>>
                                  ELSE /\ newaxiom' = extend(newaxiom, current_rules[i][2])
                                       /\ idx' = idx + 1
                                       /\ napplied' = napplied + 1
                                       /\ lastdraw' = [kind |-> "draw", sym |-> S,
                                                       p |-> p,
                                                       rule |-> current_rules[i]]
                                       /\ UNCHANGED <<pc, err>>
           ELSE /\ newaxiom' = Append(newaxiom, S)
                /\ idx' = idx + 1
                /\ lastdraw' = [kind |-> "pass", sym |-> S, p |-> Rat(0, 1),
                                rule |-> <<>>]
                /\ UNCHANGED <<pc, err, ndraws, gendraws, napplied, drawn, rngseq>>
    /\ UNCHANGED <<engine, axiom, rules, n, result, s_to_rules, curr_axiom,
                   curr_n>>
    /\ UNCHANGED <<ttVars, fsVars, prVars, tcVars>>

\* impl, line 191: return impl(newaxiom, curr_n - 1).
StoRecurse ==
    /\ pc = "loop"
    /\ idx > Len(curr_axiom)
    /\ curr_axiom' = newaxiom
    /\ curr_n' = curr_n - 1
    /\ pc' = "enter"
    /\ UNCHANGED <<engine, axiom, rules, n, result, err, s_to_rules, newaxiom,
                   idx, ndraws, gendraws, napplied, drawn, rngseq, lastdraw>>
    /\ UNCHANGED <<ttVars, fsVars, prVars, tcVars>>

Next ==
    \/ DetCall
    \/ StoCall
    \/ StoEnter
    \/ StoStep
    \/ StoRecurse

Spec == Init /\ [][Next]_vars

-----------------------------------------------------------------------------
(* Specification SpecTwoCalls: stochastic.evaluateSystem called twice in a *)
(* row with the same axiom, rules and n; the random source of the second   *)
(* call returns the values the source of the first call returned.          *)

\* The axioms of the two calls.
TwoCallAxioms == {<<"A">>, <<"A", "B">>}

InitTwoCalls ==
    /\ engine = "sto"
    /\ axiom \in TwoCallAxioms
    /\ rules \in StoRules
    /\ n \in Generations
    /\ pc = "call"
    /\ result = <<>>
    /\ err = ""
    /\ s_to_rules = <<>>
    /\ curr_axiom = <<>>
    /\ curr_n = 0
    /\ newaxiom = <<>>
    /\ idx = 0
    /\ ndraws = 0
    /\ gendraws = 0
    /\ napplied = 0
    /\ drawn = {}
    /\ rngseq = <<>>
    /\ lastdraw = NoDraw
    /\ callno = 1
    /\ call1 = NoCall
    /\ TurtleIdle
    /\ CallAllIdle
    /\ ProductionIdle

\* The first call is over; the caller calls evaluateSystem again with the
\* objects it passed before.  The locals of the first call are gone: the
\* model keeps their last values until the second call assigns its own.
CallAgain ==
    /\ callno = 1
    /\ pc \in {"done", "error"}
    /\ call1' = [pc |-> pc, result |-> result, err |-> err, rngseq |-> rngseq]
    /\ callno' = 2
    /\ pc' = "call"
    /\ result' = <<>>
    /\ err' = ""
    /\ ndraws' = 0
    /\ gendraws' = 0
    /\ napplied' = 0
    /\ drawn' = {}
    /\ rngseq' = <<>>
    /\ lastdraw' = NoDraw
    /\ UNCHANGED <<engine, axiom, rules, n, s_to_rules, curr_axiom, curr_n,
                   newaxiom, idx>>
    /\ UNCHANGED <<ttVars, fsVars, prVars>>

\* rng() of the second call returns what rng() of the first call returned at
\* the same position.
SameSource ==
    (callno = 2 /\ ndraws' > ndraws) =>
        /\ ndraws' <= Len(call1.rngseq)
        /\ rngseq'[ndraws'] = call1.rngseq[ndraws']

\* impl, lines 165-190, with the random source of this call.
StoStepSameSource ==
    /\ StoStep
    /\ SameSource

NextTwoCalls ==
    \/ StoCall
    \/ StoEnter
    \/ StoStepSameSource
    \/ StoRecurse
    \/ CallAgain

SpecTwoCalls == InitTwoCalls /\ [][NextTwoCalls]_vars

-----------------------------------------------------------------------------
(* Specification SpecTurtle: one call of mapActions(symbols, actions,      *)
(* turtle) on a new PyXTurtle or TikzTurtle; the symbol sequence is        *)
(* any sequence over TurtleSymbols of at most MaxSymbols symbols.          *)

InitTurtle ==
    /\ RewritingIdle
    /\ CallAllIdle
    /\ ProductionIdle
    /\ turtle \in {NewTurtle(1, "PyXTurtle"), NewTurtle(2, "TikzTurtle")}
    /\ trace = <<>>
    /\ hist = <<>>
    /\ tpc = "run"
    /\ ret = 0

\* mapActions, lines 62-66: one iteration of "for s in symbols".
MapStep ==
    /\ tpc = "run"
    /\ Len(trace) < MaxSymbols
    /\ \E s \in TurtleSymbols :
          /\ trace' = Append(trace, s)
          /\ hist' = Append(hist, [pos |-> turtle.pos, angle |-> turtle.angle])
          /\ turtle' = mapStep(turtle, s)
          /\ tpc' = IF turtle'.exc # "" THEN "raised" ELSE "run"
    /\ UNCHANGED ret
    /\ UNCHANGED <<rwVars, fsVars, prVars, tcVars>>

\* mapActions, line 67: the sequence is exhausted, return turtle.
MapReturn ==
    /\ tpc = "run"
    /\ ret' = turtle.id
    /\ tpc' = "returned"
    /\ UNCHANGED <<turtle, trace, hist>>
    /\ UNCHANGED <<rwVars, fsVars, prVars, tcVars>>

NextTurtle ==
    \/ MapStep
    \/ MapReturn

SpecTurtle == InitTurtle /\ [][NextTurtle]_vars

-----------------------------------------------------------------------------
(* Specification SpecCombine: one call of                                  *)
(* mapActions(symbols, pythagorasTree.turtleActions, turtle), whose table  *)
(* binds "[" and "]" to combined actions.                                  *)

InitCombine ==
    /\ RewritingIdle
    /\ CallAllIdle
    /\ ProductionIdle
    /\ turtle \in {NewTurtle(1, "PyXTurtle"), NewTurtle(2, "TikzTurtle")}
    /\ trace = <<>>
    /\ hist = <<>>
    /\ tpc = "run"
    /\ ret = 0

\* mapActions, lines 62-66: one iteration of "for s in symbols".
TreeStep ==
    /\ tpc = "run"
    /\ Len(trace) < MaxSymbols
    /\ \E s \in TreeSymbols :
          /\ trace' = Append(trace, s)
          /\ hist' = Append(hist, [pos |-> turtle.pos, angle |-> turtle.angle])
          /\ turtle' = mapStepTree(turtle, s)
          /\ tpc' = IF turtle'.exc # "" THEN "raised" ELSE "run"
    /\ UNCHANGED ret
    /\ UNCHANGED <<rwVars, fsVars, prVars, tcVars>>

\* mapActions, line 67: the sequence is exhausted, return turtle.
TreeReturn ==
    /\ tpc = "run"
    /\ ret' = turtle.id
    /\ tpc' = "returned"
    /\ UNCHANGED <<turtle, trace, hist>>
    /\ UNCHANGED <<rwVars, fsVars, prVars, tcVars>>

NextCombine ==
    \/ TreeStep
    \/ TreeReturn

SpecCombine == InitCombine /\ [][NextCombine]_vars

-----------------------------------------------------------------------------
(* Specification SpecCallAll: one call of FunctionalSymbol.call_all, or of *)
(* FunctionalSymbol.call_all_with_results with its generator consumed to   *)
(* the end, on a finite symbol sequence.                                   *)

InitCallAll ==
    /\ RewritingIdle
    /\ TurtleIdle
    /\ ProductionIdle
    /\ fentry \in {"call_all", "call_all_with_results"}
    /\ symbols \in SeqsUpTo(CallSymbols, MaxCallSymbols)
    /\ fpc = "call"
    /\ fdepth = 0
    /\ fidx = 0
    /\ invoked = <<>>

\* call_all_with_results is called: a generator is created, nothing runs yet.
GenCreate ==
    /\ fentry = "call_all_with_results"
    /\ fpc = "call"
    /\ fidx' = 1
    /\ fpc' = "gen"
    /\ UNCHANGED <<fentry, symbols, fdepth, invoked>>
    /\ UNCHANGED <<rwVars, ttVars, prVars, tcVars>>

\* Lines 170-172: one iteration of "for s in symbols" of the generator.
GenStep ==
    /\ fpc = "gen"
    /\ fidx <= Len(symbols)
    /\ invoked' = IF callable(symbols[fidx])
                  THEN Append(invoked, symbols[fidx].name)
                  ELSE invoked
    /\ fidx' = fidx + 1
    /\ UNCHANGED <<fentry, symbols, fpc, fdepth>>
    /\ UNCHANGED <<rwVars, ttVars, prVars, tcVars>>

\* The generator is exhausted.
GenExhausted ==
    /\ fpc = "gen"
    /\ fidx > Len(symbols)
    /\ fpc' = "done"
    /\ UNCHANGED <<fentry, symbols, fdepth, fidx, invoked>>
    /\ UNCHANGED <<rwVars, ttVars, prVars, tcVars>>

\* Line 181: call_all is entered and calls cls.call_all(symbols, ...), that
\* is itself, until the interpreter's recursion limit raises RecursionError.
CallAllEnter ==
    /\ fentry = "call_all"
    /\ fpc = "call"
    /\ IF fdepth < RecursionLimit
       THEN /\ fdepth' = fdepth + 1
            /\ UNCHANGED fpc
       ELSE /\ fpc' = "raised"
            /\ UNCHANGED fdepth
    /\ UNCHANGED <<fentry, symbols, fidx, invoked>>
    /\ UNCHANGED <<rwVars, ttVars, prVars, tcVars>>

NextCallAll ==
    \/ GenCreate
    \/ GenStep
    \/ GenExhausted
    \/ CallAllEnter

SpecCallAll == InitCallAll /\ [][NextCallAll]_vars

-----------------------------------------------------------------------------
(* Specification SpecProduction: one call of production of the             *)
(* standard or of the stochastic module, with text arguments.              *)

InitProduction ==
    /\ RewritingIdle
    /\ TurtleIdle
    /\ CallAllIdle
    /\ pmodule \in {"standard", "stochastic"}
    /\ pargs \in ArgLists
    /\ ppc = "call"
    /\ pret = NoValue
    /\ perr = ""

\* production, the whole call.
Production ==
    /\ ppc = "call"
    /\ LET r == production(pmodule, pargs)
       IN  /\ ppc' = IF r.exc # "" THEN "raised" ELSE "returned"
           /\ perr' = r.exc
           /\ pret' = [kind |-> r.kind, value |-> r.value]
    /\ UNCHANGED <<pmodule, pargs>>
    /\ UNCHANGED <<rwVars, ttVars, fsVars, tcVars>>

NextProduction == Production

SpecProduction == InitProduction /\ [][NextProduction]_vars

-----------------------------------------------------------------------------
(* Reference definitions used by the properties below. *)

RECURSIVE Flatten(_)
Flatten(ss) == IF ss = <<>> THEN <<>> ELSE ss[1] \o Flatten(Tail(ss))

\* One generation under the mapping m: every symbol replaced by m[x] when
\* it has a rule and by itself otherwise, left to right.
OneGeneration(s, m) ==
    Flatten([i \in 1..Len(s) |-> IF s[i] \in DOMAIN m THEN m[s[i]] ELSE <<s[i]>>])

RECURSIVE NGenerations(_, _, _)
NGenerations(s, m, k) ==
    IF k = 0 THEN s ELSE OneGeneration(NGenerations(s, m, k - 1), m)

PythagorasTwo ==
    <<"1", "1", "[", "1", "[", "0", "]", "0", "]", "1", "[", "0", "]", "0">>

\* The orders of rs that are ascending by weight and keep the input order
\* of equal weights: exactly one permutation of the indices.
StableAscending(rs) ==
    CHOOSE f \in [DOMAIN rs -> DOMAIN rs] :
        /\ \A i, j \in DOMAIN rs : i # j => f[i] # f[j]
        /\ \A i, j \in DOMAIN rs : i < j =>
              \/ RatLt(rs[f[i]][1], rs[f[j]][1])
              \/ RatEq(rs[f[i]][1], rs[f[j]][1]) /\ f[i] < f[j]

RECURSIVE WeightUpTo(_, _, _)
WeightUpTo(rs, f, i) ==
    IF i = 0 THEN Rat(0, 1) ELSE RatAdd(WeightUpTo(rs, f, i - 1), rs[f[i]][1])

\* The cumulative normalized weight of the first i rules in the order f:
\* the sum of the weights divided by the total.
Cumulative(rs, f, i) == RatDiv(WeightUpTo(rs, f, i), WeightUpTo(rs, f, Len(rs)))

\* The rule the claim names: the first one, in stable ascending order,
\* whose cumulative normalized weight is at least p.
FirstAtLeast(rs, p) ==
    LET f == StableAscending(rs)
        k == CHOOSE i \in DOMAIN rs :
                /\ RatLe(p, Cumulative(rs, f, i))
                /\ \A j \in 1..(i - 1) : ~RatLe(p, Cumulative(rs, f, j))
    IN  rs[f[k]]

PositiveWeights(rs) == \A i \in DOMAIN rs : RatLt(Rat(0, 1), rs[i][1])

\* The rule the code applies to a rule set rs on the draw p.
Applied(rs, p) == sorted(rs)[selectedIndex(sorted(rs), p)]

\* The orders of rs that keep the relative order of equal weights.
TieKeepingOrders(rs) ==
    { f \in [DOMAIN rs -> DOMAIN rs] :
        /\ \A i, j \in DOMAIN rs : i # j => f[i] # f[j]
        /\ \A i, j \in DOMAIN rs :
              (i < j /\ RatEq(rs[f[i]][1], rs[f[j]][1])) => f[i] < f[j] }

Reordered(rs, f) == [i \in DOMAIN rs |-> rs[f[i]]]

\* The number of positions before i of s whose symbol has a rule set.
RECURSIVE RuledBefore(_, _, _)
RuledBefore(s, table, i) ==
    IF i <= 1 THEN 0
    ELSE RuledBefore(s, table, i - 1)
         + (IF s[i - 1] \in DOMAIN table THEN 1 ELSE 0)

-----------------------------------------------------------------------------
(* Properties of the rewriting engines, checked under Spec. *)

\* C1: the deterministic evaluateSystem with a mapping as rules and n >= 1
\* returns n generations applied in sequence with the same rule table, one
\* generation replacing every symbol with a rule by rules[x] and keeping
\* every other symbol; "0" under 1->11, 0->1[0]0 with n = 2 gives
\* 11[1[0]0]1[0]0.
C1_MappingGenerations ==
    (engine = "det" /\ pc = "done" /\ rules.kind = "dict" /\ n >= 1) =>
        /\ result = NGenerations(axiom, rules.map, n)
        /\ (axiom = <<"0">> /\ rules = DictRules(dict(Pythagoras)) /\ n = 2)
              => result = PythagorasTwo

C1_Witness ==
    /\ engine = "det" /\ pc = "done"
    /\ axiom = <<"0">> /\ rules = DictRules(dict(Pythagoras)) /\ n = 2
    /\ result = PythagorasTwo

\* C2: the deterministic evaluateSystem gives, for a single rule tuple
\* (S, seq), the same output as for the list [(S, seq)] and as for the
\* mapping {S: seq}.
C2_TupleListMappingAgree ==
    (engine = "det" /\ pc = "done" /\ rules.kind = "tuple") =>
        /\ result = evaluateSystem(axiom, ListRules(<<rules.item>>), n)
        /\ result = evaluateSystem(axiom, DictRules(dict(<<rules.item>>)), n)

\* C3: with n < 1 both engines return the axiom unchanged, apply no rule
\* and (stochastic) never call the random source.
C3_NoGenerationBelowOne ==
    n < 1 =>
        /\ pc = "done" => result = axiom
        /\ pc \notin {"loop", "error"}
        /\ ndraws = 0 /\ napplied = 0 /\ drawn = {}

C3_Witness ==
    /\ engine = "sto" /\ pc = "done" /\ n = 0
    /\ axiom = <<"A", "A">> /\ "A" \in DOMAIN s_to_rules
    /\ result = axiom

\* C4: for a rule set with positive weights and a draw p in [0, 1) the
\* stochastic engine applies the first rule, in the order sorted ascending
\* by weight (stable), whose cumulative normalized weight is >= p; the input
\* order of the rules matters only among equal weights.
C4_FirstCumulativeAtLeastDraw ==
    /\ (lastdraw.kind = "draw" /\ PositiveWeights(s_to_rules[lastdraw.sym])) =>
          /\ pc # "error"
          /\ lastdraw.rule = FirstAtLeast(s_to_rules[lastdraw.sym], lastdraw.p)
    /\ \A S \in DOMAIN s_to_rules :
          PositiveWeights(s_to_rules[S]) =>
             \A f \in TieKeepingOrders(s_to_rules[S]) : \A p \in Draws :
                Applied(Reordered(s_to_rules[S], f), p) = Applied(s_to_rules[S], p)

\* The heavier rule is first in the input and the lighter one is applied.
C4_Witness ==
    /\ lastdraw.kind = "draw"
    /\ s_to_rules[lastdraw.sym] =
          <<<<Rat(4, 1), <<"C", "A">>>>, <<Rat(2, 1), <<"B">>>>>>
    /\ lastdraw.p = Rat(1, 3)
    /\ lastdraw.rule = <<Rat(2, 1), <<"B">>>>

\* C5: a draw exactly on the cumulative boundary between two partitions
\* selects the rule of the lower partition: weights [2, 4] and p = 1/3 give
\* the weight-2 rule, and A 0.5->BA, A 0.5->C on AA with n = 2 and the
\* constant source 0.5 give B,B,A,B,B,A.
C5_BoundarySelectsLower ==
    /\ (lastdraw.kind = "draw" /\ PositiveWeights(s_to_rules[lastdraw.sym])) =>
          LET rs == s_to_rules[lastdraw.sym]
              f == StableAscending(rs)
          IN  \A i \in DOMAIN rs :
                 RatEq(lastdraw.p, Cumulative(rs, f, i)) => lastdraw.rule = rs[f[i]]
    /\ (/\ lastdraw.kind = "draw" /\ lastdraw.p = Rat(1, 3)
        /\ {r[1] : r \in {s_to_rules[lastdraw.sym][i] :
                             i \in DOMAIN s_to_rules[lastdraw.sym]}}
              = {Rat(2, 1), Rat(4, 1)})
          => lastdraw.rule[1] = Rat(2, 1)
    /\ (/\ engine = "sto" /\ pc = "done" /\ axiom = <<"A", "A">> /\ n = 2
        /\ rules = ListRules(<<<<"A", Rat(1, 2), <<"B", "A">>>>,
                               <<"A", Rat(1, 2), <<"C">>>>>>)
        /\ drawn = {Rat(1, 2)})
          => result = <<"B", "B", "A", "B", "B", "A">>

C5_Witness ==
    /\ engine = "sto" /\ pc = "done" /\ axiom = <<"A", "A">> /\ n = 2
    /\ rules = ListRules(<<<<"A", Rat(1, 2), <<"B", "A">>>>,
                           <<"A", Rat(1, 2), <<"C">>>>>>)
    /\ drawn = {Rat(1, 2)}
    /\ result = <<"B", "B", "A", "B", "B", "A">>

\* C6: within one stochastic call the random source is called exactly once
\* for each occurrence of a symbol with a rule set, left to right within a
\* generation, and never for a pass-through symbol; each draw decides the
\* expansion of that occurrence only.
C6_OneDrawPerRuledOccurrence ==
    /\ [](pc = "loop" => gendraws = RuledBefore(curr_axiom, s_to_rules, idx))
    /\ [][ (pc = "loop" /\ pc' = "loop" /\ idx' # idx) =>
              /\ idx' = idx + 1
              /\ IF curr_axiom[idx] \in DOMAIN s_to_rules
                 THEN /\ ndraws' = ndraws + 1
                      /\ lastdraw'.kind = "draw"
                      /\ lastdraw'.sym = curr_axiom[idx]
                      /\ lastdraw'.rule =
                            Applied(s_to_rules[curr_axiom[idx]], lastdraw'.p)
                      /\ newaxiom' = newaxiom \o lastdraw'.rule[2]
                 ELSE /\ ndraws' = ndraws
                      /\ drawn' = drawn
                      /\ newaxiom' = newaxiom \o <<curr_axiom[idx]>> ]_vars
    /\ [][ ndraws' # ndraws => (pc = "loop" /\ idx <= Len(curr_axiom)
                                /\ curr_axiom[idx] \in DOMAIN s_to_rules) ]_vars

\* Two occurrences of A in one generation, expanded differently.
C6_Witness ==
    /\ pc = "loop" /\ curr_axiom = <<"A", "A">> /\ idx = 3
    /\ s_to_rules["A"] = <<<<Rat(1, 2), <<"B", "A">>>>, <<Rat(1, 2), <<"C">>>>>>
    /\ gendraws = 2
    /\ newaxiom = <<"B", "A", "C">>

-----------------------------------------------------------------------------
(* Reference definitions for the turtle properties. *)

\* The number of occurrences of sym among the first k symbols of tr.
RECURSIVE Count(_, _, _)
Count(tr, sym, k) ==
    IF k = 0 THEN 0
    ELSE Count(tr, sym, k - 1) + (IF tr[k] = sym THEN 1 ELSE 0)

\* The position of the "[" that a "]" right after position i closes, the
\* pairs in between being balanced; 0 when there is none.
RECURSIVE MatchingPush(_, _, _)
MatchingPush(tr, i, depth) ==
    IF i = 0 THEN 0
    ELSE IF tr[i] = "]" THEN MatchingPush(tr, i - 1, depth + 1)
    ELSE IF tr[i] = "[" THEN (IF depth = 0 THEN i
                              ELSE MatchingPush(tr, i - 1, depth - 1))
    ELSE MatchingPush(tr, i - 1, depth)

\* More closes than opens among the first k symbols.
Excess(tr, k) == Count(tr, "]", k) > Count(tr, "[", k)

StackDepth(T) == IF T.cls = "PyXTurtle" THEN Len(T.states) ELSE Len(T.stack)

IsMapped(s) == s \in DOMAIN actions

\* The bound actions of a sequence of mapped symbols applied in order to T,
\* up to the first that raises.
RECURSIVE ApplyAll(_, _)
ApplyAll(seq, T) ==
    IF seq = <<>> \/ T.exc # "" THEN T
    ELSE ApplyAll(Tail(seq), TurtleAction_call(actions[seq[1]], T))

-----------------------------------------------------------------------------
(* Properties of the turtle interpreter, checked under SpecTurtle. *)

\* C7: on PyXTurtle and TikzTurtle the pop() matching a push() restores
\* position and heading to exactly their values at that push(), whatever
\* forward, rotate and balanced push/pop calls came in between.
C7_PopRestoresPushState ==
    (tpc \in {"run", "returned"} /\ trace # <<>> /\ trace[Len(trace)] = "]") =>
        LET j == MatchingPush(trace, Len(trace) - 1, 0)
        IN  /\ j > 0
            /\ turtle.pos = hist[j].pos
            /\ turtle.angle = hist[j].angle

\* The outer pop brings the turtle back from (0, 1) to where it was pushed.
C7_Witness ==
    /\ tpc = "run" /\ turtle.cls = "TikzTurtle"
    /\ trace = <<"[", "F", "[", "]", "]">>
    /\ hist[5].pos = vec2(0, 1)
    /\ turtle.pos = vec2(0, 0) /\ turtle.angle = 1

\* C8: with an empty save-stack (as many pops as pushes so far) pop() raises
\* on both turtles; through mapActions a sequence with more closes than
\* opens aborts at the first excess pop and no later symbol is interpreted.
C8_PopOnEmptyRaises ==
    tpc # "idle" =>
        /\ tpc # "raised" =>
              StackDepth(turtle) = Count(trace, "[", Len(trace))
                                   - Count(trace, "]", Len(trace))
        /\ (tpc = "run" /\ StackDepth(turtle) = 0) =>
              callMethod(turtle, "pop", <<>>).exc = "IndexError"
        /\ \A k \in 1..Len(trace) :
              Excess(trace, k) => (tpc = "raised" /\ k = Len(trace))
        /\ tpc = "raised" =>
              /\ trace[Len(trace)] = "]"
              /\ Excess(trace, Len(trace))
              /\ ~ENABLED MapStep
              /\ ~ENABLED MapReturn
              /\ ret = 0

C8_Witness ==
    /\ tpc = "raised" /\ turtle.cls = "PyXTurtle"
    /\ trace = <<"[", "F", "]", "]">>
    /\ turtle.exc = "IndexError"

\* C9: mapActions leaves the turtle in the state obtained by applying, in
\* order, the bound action of every symbol that is a key of actions and
\* nothing for any other symbol, and returns the turtle it was given.
C9_MappedActionsInOrder ==
    tpc # "idle" =>
        /\ turtle = ApplyAll(SelectSeq(trace, IsMapped),
                             NewTurtle(turtle.id, turtle.cls))
        /\ tpc = "returned" => (ret = turtle.id /\ turtle.exc = "")
        /\ tpc # "returned" => ret = 0

C9_Witness ==
    /\ tpc = "returned" /\ ret = turtle.id
    /\ trace = <<"F", "X", "+", "X", "F">>
    /\ turtle.pos = vec2(0 - 1, 1) /\ turtle.angle = 2

-----------------------------------------------------------------------------
(* Properties of FunctionalSymbol, checked under SpecCallAll. *)

\* The names of the callable symbols of a sequence, in order.
CallableNames(ss) ==
    LET cs == SelectSeq(ss, callable) IN [i \in DOMAIN cs |-> cs[i].name]

\* C10: call_all on a finite symbol sequence terminates normally after
\* invoking every callable symbol exactly once, in order, skipping the
\* others, as call_all_with_results does when its generator is exhausted.
C10_CallAllInvokesCallables ==
    (fentry = "call_all" /\ fpc \in {"done", "raised"}) =>
        /\ fpc = "done"
        /\ invoked = CallableNames(symbols)

-----------------------------------------------------------------------------
(* production: the text forms. *)

\* The separator "->" starts at index k of the text a.
ArrowAt(a, k) == k >= 1 /\ k + 1 <= Len(a) /\ a[k] = "-" /\ a[k + 1] = ">"

HasArrow(a) == \E k \in 1..Len(a) : ArrowAt(a, k)

FirstArrow(a) ==
    CHOOSE k \in 1..Len(a) :
        ArrowAt(a, k) /\ \A m \in 1..(k - 1) : ~ArrowAt(a, m)

AllIn(a, lo, hi, S) == \A k \in lo..hi : a[k] \in S

NoneIn(a, lo, hi, S) == \A k \in lo..hi : a[k] \notin S

\* The text a is: one symbol character, whitespace or none, "->" at index i,
\* whitespace or none, and from index j a non-empty output run.
DetForm(a, i, j) ==
    /\ Len(a) >= 4
    /\ a[1] \notin Whitespace \cup {"-", ">"}
    /\ i \in 2..(Len(a) - 1)
    /\ ArrowAt(a, i)
    /\ AllIn(a, 2, i - 1, Whitespace)
    /\ j \in (i + 2)..Len(a)
    /\ AllIn(a, i + 2, j - 1, Whitespace)
    /\ NoneIn(a, j, Len(a), Whitespace)

OneCall == ppc \in {"returned", "raised"} /\ Len(pargs) = 1

Rule(value) == [kind |-> "rule", value |-> value]

\* C11 (as stated): the deterministic production() turns a text of the form
\* symbol, optional whitespace, "->", optional whitespace, output run into
\* the rule whose left side is exactly the symbol character and whose right
\* side is the list of the characters of the output run, the whitespace next
\* to the separator belonging to neither side; a text without "->" raises
\* ValueError.
C11_SeparatorWhitespaceDropped ==
    (pmodule = "standard" /\ OneCall) =>
        LET a == pargs[1]
        IN  /\ \A i, j \in 1..Len(a) :
                  DetForm(a, i, j) =>
                      /\ ppc = "returned"
                      /\ pret = Rule(<<<<a[1]>>, SubSeq(a, j, Len(a))>>)
            /\ ~HasArrow(a) => (ppc = "raised" /\ perr = "ValueError")

\* C11 (amended): the deterministic production() splits a text at its first
\* "->": the left side of the rule is the whole text before it and the right
\* side is the list of all the characters after it, whitespace included, one
\* symbol per character; so for symbol, "->", output run with no whitespace
\* the left side is exactly the symbol character and the right side the
\* characters of the run; a text without "->" raises ValueError.
C11_SplitAtFirstSeparator ==
    (pmodule = "standard" /\ OneCall) =>
        LET a == pargs[1]
        IN  IF HasArrow(a)
            THEN LET k == FirstArrow(a)
                 IN  /\ ppc = "returned"
                     /\ pret = Rule(<<SubSeq(a, 1, k - 1),
                                      SubSeq(a, k + 2, Len(a))>>)
                     /\ DetForm(a, 2, 4) =>
                            pret = Rule(<<<<a[1]>>, SubSeq(a, 4, Len(a))>>)
            ELSE ppc = "raised" /\ perr = "ValueError"

\* production("F -> A") has returned ("F ", [" ", "A"]).
C11_Witness ==
    /\ pmodule = "standard"
    /\ ppc = "returned"
    /\ pargs = <<<<"F", " ", "-", ">", " ", "A">>>>
    /\ pret = Rule(<<<<"F", " ">>, <<" ", "A">>>>)

\* The text a is: one character other than "-" and ">"; optionally, from b,
\* a weight (digits up to c, optionally a "." and digits up to d) after
\* whitespace; whitespace or none; "->" at index i; a non-empty run of
\* non-whitespace characters up to the end of the text.
StoForm(a, b, c, d, i) ==
    /\ Len(a) >= 4
    /\ a[1] \notin {"-", ">"}
    /\ ArrowAt(a, i)
    /\ 2 <= b /\ b <= c /\ c <= d /\ d <= i
    /\ AllIn(a, 2, b - 1, Whitespace)
    /\ AllIn(a, b, c - 1, Digits)
    /\ c > b => b > 2
    /\ \/ d = c
       \/ /\ c > b
          /\ a[c] = "."
          /\ AllIn(a, c + 1, d - 1, Digits)
    /\ c = b => d = i
    /\ AllIn(a, d, i - 1, Whitespace)
    /\ i + 2 <= Len(a)
    /\ NoneIn(a, i + 2, Len(a), Whitespace)

StoFormOf(a) ==
    {q \in (2..Len(a)) \X (2..Len(a)) \X (2..Len(a)) \X (2..Len(a)) :
        StoForm(a, q[1], q[2], q[3], q[4])}

\* The rule the text form denotes: (S, W as a real or 1.0, the run).
StoDenoted(a) ==
    LET q == CHOOSE q \in StoFormOf(a) : TRUE
    IN  <<<<a[1]>>,
          IF q[2] = q[1] THEN Rat(1, 1) ELSE float(SubSeq(a, q[1], q[3] - 1)),
          SubSeq(a, q[4] + 2, Len(a))>>

\* C12: the stochastic production() turns a text "S W->ABC" (one symbol
\* character other than "-" and ">", optionally a whitespace-separated real
\* literal W, "->", a non-empty run of non-whitespace characters) into the
\* rule (S, W, [A, B, C]), W = 1.0 when omitted; every text that does not
\* have this form raises ValueError; several texts of this form give the list
\* of their rules in input order.
C12_TextFormOrValueError ==
    (pmodule = "stochastic" /\ ppc \in {"returned", "raised"}) =>
        /\ Len(pargs) = 1 =>
              IF StoFormOf(pargs[1]) # {}
              THEN ppc = "returned" /\ pret = Rule(StoDenoted(pargs[1]))
              ELSE ppc = "raised" /\ perr = "ValueError"
        /\ Len(pargs) > 1 =>
              IF \A k \in DOMAIN pargs : StoFormOf(pargs[k]) # {}
              THEN /\ ppc = "returned"
                   /\ pret = [kind |-> "list",
                              value |-> [k \in DOMAIN pargs |->
                                             StoDenoted(pargs[k])]]
              ELSE ppc = "raised" /\ perr = "ValueError"

-----------------------------------------------------------------------------
(* Deterministic engine: a list with several rules of one symbol. *)

\* Two rules of the list have the same left symbol.
HasDuplicateSymbol(items) ==
    \E i, j \in DOMAIN items : i < j /\ items[i][1] = items[j][1]

\* The output of the rule of symbol s that comes last in items, searched
\* from index i downwards.
RECURSIVE LaterOutput(_, _, _)
LaterOutput(items, s, i) ==
    IF items[i][1] = s THEN items[i][2] ELSE LaterOutput(items, s, i - 1)

LaterWins(items) ==
    [s \in {items[i][1] : i \in DOMAIN items} |->
        LaterOutput(items, s, Len(items))]

\* C13: for a list of rules in which two rules have the same left symbol, the
\* deterministic evaluateSystem applies the later rule of the list in every
\* generation and never the earlier one: the result is n generations under
\* the table that maps each symbol to the output of its last rule.
C13_LaterDuplicateRuleApplied ==
    (engine = "det" /\ pc = "done" /\ rules.kind = "list"
        /\ HasDuplicateSymbol(rules.items) /\ n >= 1) =>
        /\ result = NGenerations(axiom, LaterWins(rules.items), n)
        /\ (axiom = <<"A">>
              /\ rules.items = <<<<"A", <<"A", "B">>>>, <<"A", <<"C">>>>>>)
              => result = <<"C">>

\* [(A, C), (B, A), (A, AB)] on "A" for two generations has given "ABA".
C13_Witness ==
    /\ engine = "det" /\ pc = "done" /\ n = 2
    /\ axiom = <<"A">>
    /\ rules = ListRules(<<<<"A", <<"C">>>>, <<"B", <<"A">>>>,
                           <<"A", <<"A", "B">>>>>>)
    /\ result = <<"A", "B", "A">>

-----------------------------------------------------------------------------
(* Turtle: forward and rotate. *)

\* The unit vector of a heading counted in quarter turns.
UnitVector(h) ==
    LET q == h % 4
    IN  IF q = 0 THEN <<1, 0>>
        ELSE IF q = 1 THEN <<0, 1>>
        ELSE IF q = 2 THEN <<0 - 1, 0>>
        ELSE <<0, 0 - 1>>

Plus(a, b) == <<a[1] + b[1], a[2] + b[2]>>

Times(a, k) == <<a[1] * k, a[2] * k>>

SaveStack(T) == IF T.cls = "PyXTurtle" THEN T.states ELSE T.stack

\* The segments of a list of vertices, in order.
PathSegments(v) == [i \in 1..(Len(v) - 1) |-> <<v[i], v[i + 1]>>]

\* The segments a PyXTurtle has recorded: one for every lineto, from the
\* point of the path element before it.
RECURSIVE PyXSegments(_, _)
PyXSegments(paths, i) ==
    IF i > Len(paths) THEN <<>>
    ELSE IF paths[i][1] = "lineto"
         THEN <<<<<<paths[i - 1][2], paths[i - 1][3]>>,
                  <<paths[i][2], paths[i][3]>>>>>> \o PyXSegments(paths, i + 1)
    ELSE PyXSegments(paths, i + 1)

\* The segments a turtle without saved states has recorded.
Segments(T) ==
    IF T.cls = "PyXTurtle" THEN PyXSegments(T.paths, 2)
    ELSE Flatten([i \in DOMAIN T.picture |-> PathSegments(T.picture[i].v)])
         \o PathSegments(T.path.v)

Scales == (0 - 1)..2

Turns == (0 - 2)..2

ForwardOf(T, k) ==
    IF T.cls = "PyXTurtle" THEN PyXTurtle_forward(T, k)
    ELSE TikzTurtle_forward(T, k)

FPlusFMinusF == <<"F", "+", "F", "-", "F">>

\* C14, on every state: forward(scale) and rotate(r) of the turtle.
ForwardRotateFrame ==
    tpc = "run" =>
        /\ \A k \in Scales :
              /\ ForwardOf(turtle, k).pos
                    = Plus(turtle.pos, Times(UnitVector(turtle.angle), k))
              /\ ForwardOf(turtle, k).angle = turtle.angle
              /\ SaveStack(ForwardOf(turtle, k)) = SaveStack(turtle)
        /\ \A r \in Turns :
              /\ BaseTurtle_rotate(turtle, r).angle = turtle.angle + r
              /\ BaseTurtle_rotate(turtle, r).pos = turtle.pos
              /\ SaveStack(BaseTurtle_rotate(turtle, r)) = SaveStack(turtle)

\* C14, on every step of mapActions: the symbols F, + and -.
ForwardRotateStep ==
    trace' # trace =>
        LET s == trace'[Len(trace')]
        IN  /\ s = "F" =>
                  /\ turtle'.pos = Plus(turtle.pos, UnitVector(turtle.angle))
                  /\ turtle'.angle = turtle.angle
                  /\ SaveStack(turtle') = SaveStack(turtle)
            /\ s \in {"+", "-"} =>
                  /\ turtle'.angle = turtle.angle + (IF s = "+" THEN 1 ELSE 0 - 1)
                  /\ turtle'.pos = turtle.pos
                  /\ SaveStack(turtle') = SaveStack(turtle)

\* C14, the sequence F + F - F from (0, 0) with heading pi/2.
ThreeSegments ==
    trace = FPlusFMinusF =>
        /\ <<hist[1].angle, hist[3].angle, hist[5].angle>> = <<1, 2, 1>>
        /\ Segments(turtle)
              = << <<<<0, 0>>, <<0, 1>>>>,
                   <<<<0, 1>>, <<0 - 1, 1>>>>,
                   <<<<0 - 1, 1>>, <<0 - 1, 2>>>> >>
        /\ \A i \in 1..3 :
              Segments(turtle)[i][2]
                 = Plus(Segments(turtle)[i][1], UnitVector(hist[2 * i - 1].angle))
        /\ turtle.pos = Plus(Plus(UnitVector(1), UnitVector(2)), UnitVector(1))
        /\ turtle.angle = 1

\* C14: forward(scale) adds unit_vector(heading) * scale to the position and
\* leaves heading and save-stack unchanged; rotate(r) adds r to the heading,
\* without wrap-around, and leaves position and save-stack unchanged; so
\* F + F - F from (0, 0) and heading pi/2 records exactly three segments, at
\* the headings pi/2, pi/2 + theta, pi/2, and ends at the sum of the three
\* unit steps.
C14_ForwardRotateFrame ==
    /\ [](ForwardRotateFrame /\ ThreeSegments)
    /\ [][ForwardRotateStep]_vars

\* F + F - F has been interpreted on a PyXTurtle, which stands at (-1, 2).
C14_Witness ==
    /\ tpc = "run"
    /\ turtle.cls = "PyXTurtle"
    /\ trace = FPlusFMinusF
    /\ turtle.pos = <<0 - 1, 2>>
    /\ Len(Segments(turtle)) = 3

-----------------------------------------------------------------------------
(* Turtle: combined actions, checked under SpecCombine. *)

\* The state saved last: <<position, heading>>.
TopSaved(T) ==
    IF T.cls = "PyXTurtle" THEN T.states[Len(T.states)]
    ELSE <<T.stack[Len(T.stack)][2], T.stack[Len(T.stack)][3]>>

\* The methods a combined action is put together from.
Methods ==
    {<<"forward", <<>>>>, <<"push", <<>>>>, <<"pop", <<>>>>,
     <<"rotate", <<1>>>>, <<"rotate", <<0 - 1>>>>}

\* C15, on every state: combine(a, b) called on the turtle is the method of
\* a called on it and then, on the same turtle, the method of b; with
\* a = b = forward the turtle has moved two steps.
CombineIsAThenB ==
    tpc = "run" =>
        /\ \A a, b \in Methods :
              LET Ta == callMethod(turtle, a[1], a[2])
              IN  Ta.exc = "" =>
                     call(TurtleAction_combine(TurtleAction(a[1], a[2]),
                                               TurtleAction(b[1], b[2])), turtle)
                        = callMethod(Ta, b[1], b[2])
        /\ call(TurtleAction_combine(TurtleAction_forward, TurtleAction_forward),
                turtle).pos
              = Plus(turtle.pos, Times(UnitVector(turtle.angle), 2))

\* C15, on every step of mapActions: "[" is combine(push, rotate(-1)) and
\* "]" is combine(pop, rotate(+1)).
CombineStep ==
    (trace' # trace /\ turtle'.exc = "") =>
        LET s == trace'[Len(trace')]
        IN  /\ s = "[" =>
                  /\ Len(SaveStack(turtle')) = Len(SaveStack(turtle)) + 1
                  /\ TopSaved(turtle') = <<turtle.pos, turtle.angle>>
                  /\ turtle'.angle = turtle.angle - 1
                  /\ turtle'.pos = turtle.pos
            /\ s = "]" =>
                  /\ Len(SaveStack(turtle')) = Len(SaveStack(turtle)) - 1
                  /\ turtle'.angle = TopSaved(turtle)[2] + 1
                  /\ turtle'.pos = TopSaved(turtle)[1]

\* C15: a composite action TurtleAction.combine(a, b) applied to a turtle
\* performs a and then b on that same turtle, in that order and each exactly
\* once (when a does not raise); combine(pop, rotate(r)) leaves the heading
\* equal to the restored heading plus r, and combine(push, rotate(r)) saves
\* the heading as it was before the rotation.
C15_CombineAThenB ==
    /\ []CombineIsAThenB
    /\ [][CombineStep]_vars

\* "[", "0", "]" has been interpreted: the heading pi/2 saved by "[" was
\* restored and then turned by a quarter turn.
C15_Witness ==
    /\ tpc = "run"
    /\ trace = <<"[", "0", "]">>
    /\ hist[2].angle = 0
    /\ hist[3].pos = <<1, 0>>
    /\ turtle.pos = <<0, 0>>
    /\ turtle.angle = 2
    /\ SaveStack(turtle) = <<>>

-----------------------------------------------------------------------------
(* Stochastic engine: two calls, checked under SpecTwoCalls. *)

\* The second call is at a symbol for which it calls rng().
SecondCallDraws ==
    /\ callno = 2
    /\ pc = "loop"
    /\ idx <= Len(curr_axiom)
    /\ hasRuleSet(curr_axiom[idx], s_to_rules)
    /\ ~RatIsZero(prob_total(s_to_rules[curr_axiom[idx]]))

\* C16, on every state: the second call ends as the first did, and asks its
\* random source for a value only where the first call did.
SameOutcome ==
    /\ (callno = 2 /\ pc \in {"done", "error"}) =>
          /\ pc = call1.pc
          /\ result = call1.result
          /\ err = call1.err
          /\ rngseq = call1.rngseq
    /\ SecondCallDraws => ndraws < Len(call1.rngseq)

\* C16, on every step: the arguments of the caller are left as they are.
ArgumentsKept == axiom' = axiom /\ rules' = rules /\ n' = n

\* C16: the stochastic engine holds no state of its own: two evaluateSystem
\* calls with the same axiom, rules and n whose random sources return the
\* same sequence of values (a constant source in particular) produce
\* identical outputs, and neither call modifies the axiom or the rules.
C16_SameDrawsSameOutput ==
    /\ []SameOutcome
    /\ [][ArgumentsKept]_vars

\* The second of two calls on a rule list, two generations, with a source
\* that returned the same value three times, has returned the first's output.
C16_Witness ==
    /\ callno = 2
    /\ pc = "done"
    /\ rules.kind = "list"
    /\ n = 2
    /\ Len(rngseq) = 3
    /\ \A i \in DOMAIN rngseq : rngseq[i] = rngseq[1]
    /\ rngseq = call1.rngseq
    /\ result = call1.result
    /\ result # axiom

-----------------------------------------------------------------------------
(* TikzTurtle: the picture; a pop that fails.  Checked under SpecTurtle. *)

\* The segments of the paths contained in the picture of T.
PictureSegments(T) ==
    UNION {{PathSegments(T.picture[i].v)[j] :
               j \in 1..(Len(T.picture[i].v) - 1)} : i \in DOMAIN T.picture}

\* The segment the k-th symbol of the trace, an F, has drawn.
DrawnSegment(k) ==
    <<hist[k].pos, Plus(hist[k].pos, UnitVector(hist[k].angle))>>

\* C17: after mapActions has interpreted a whole symbol sequence on a
\* TikzTurtle, every segment drawn by forward belongs to a path contained in
\* the turtle's tikzPicture; with balanced push/pop in particular, no drawn
\* segment remains only in the in-progress path.
C17_DrawnSegmentsInPicture ==
    (tpc = "returned" /\ turtle.cls = "TikzTurtle") =>
        \A k \in DOMAIN trace :
            trace[k] = "F" => DrawnSegment(k) \in PictureSegments(turtle)

\* C18: a pop() that fails because the save-stack is empty leaves the turtle
\* exactly as it was before the call: position, heading, save-stack and all
\* recorded geometry (PyXTurtle.paths; the picture and the in-progress path
\* of TikzTurtle) are unchanged.
C18_FailedPopChangesNothing ==
    (tpc = "run" /\ StackDepth(turtle) = 0) =>
        callMethod(turtle, "pop", <<>>) = [turtle EXCEPT !.exc = "IndexError"]

-----------------------------------------------------------------------------
(* Stochastic engine: rules of weight zero.  Checked under Spec. *)

\* C19: in the stochastic evaluateSystem a rule whose weight is 0, in a rule
\* set whose total weight is positive, is never selected, for any draw p in
\* [0, 1) of the random source.
C19_ZeroWeightNeverSelected ==
    (engine = "sto" /\ lastdraw.kind = "draw" /\ lastdraw.rule # <<>>) =>
        ~RatIsZero(lastdraw.rule[1])

=============================================================================
